---------------------------- MODULE Spec2Model ----------------------------
(***************************************************************************)
(* TextAnaSearch: the loader (TextProcessor), the inverted index           *)
(* (SimpleIndexer), the frequency tables (FrequencyAnalyzer), the          *)
(* retriever (DocumentRetriever) and the session that drives them          *)
(* (CLIManager).                                                           *)
(*                                                                         *)
(* A Python str is a sequence of one-character strings; a Python dict (and *)
(* a Counter) is a sequence of [k, v] records in insertion order, with     *)
(* distinct keys; a Python list is a sequence.  Dict objects that the code *)
(* shares by reference (the indexer's index, the analyzer's freq_per_doc   *)
(* and the two fields of a retriever) live in the heap and are named by    *)
(* references.                                                             *)
(***************************************************************************)
EXTENDS Integers, Sequences, FiniteSets, TLC

VARIABLES
    fs,            \* the file system: text file path -> its content (a str)
    docs_raw,      \* TextProcessor.docs_raw
    docs_lines,    \* TextProcessor.docs_lines
    docs_tokens,   \* TextProcessor.docs_tokens
    index,         \* SimpleIndexer.index: a reference, or NoRef (no attribute)
    freq_per_doc,  \* FrequencyAnalyzer.freq_per_doc: a reference, or NoRef
    corpus_freq,   \* FrequencyAnalyzer.corpus_freq: <<>> (no attribute) or <<Counter>>
    retriever,     \* the current DocumentRetriever: <<>> (None) or <<[index, freq_per_doc]>>
    loaded,        \* CLIManager.loaded
    heap,          \* heap.index, heap.freq: reference -> the dict object it names
    last           \* the last operation called: its name, argument, result, error

vars == <<fs, docs_raw, docs_lines, docs_tokens, index, freq_per_doc,
          corpus_freq, retriever, loaded, heap, last>>

-----------------------------------------------------------------------------
(* Bounds of the model *)

\* longest path list given to a load request
MaxPaths == 2
\* longest keyword list given to a retrieval
MaxKw == 2
\* number of heap cells of each kind (an indexer and a retriever reach at
\* most two index dicts, an analyzer and a retriever two frequency dicts)
NRefs == 2

-----------------------------------------------------------------------------
(* Python str and dict *)

\* str.lower() on one character
LowerChar(c) ==
    CASE c = "A" -> "a"
      [] c = "B" -> "b"
      [] c = "T" -> "t"
      [] c = "X" -> "x"
      [] OTHER -> c

\* str.lower()
Lower(s) == [i \in DOMAIN s |-> LowerChar(s[i])]

\* the regular expression class \w
IsWordChar(c) == c \in {"a", "b", "d", "m", "t", "x", "z", "A", "B", "T", "X", "_"}

\* the regular expression class \s, and the separators of str.split()
IsSpaceChar(c) == c \in {" ", "\n", "\t"}

\* re.sub(r'[^\w\s]', '', s)
StripPunct(s) == SelectSeq(s, LAMBDA c : IsWordChar(c) \/ IsSpaceChar(c))

\* str.split(): the maximal runs of non-space characters
RECURSIVE SplitFrom(_, _, _)
SplitFrom(s, i, cur) ==
    IF i > Len(s)
    THEN IF cur = <<>> THEN <<>> ELSE <<cur>>
    ELSE IF IsSpaceChar(s[i])
         THEN (IF cur = <<>> THEN <<>> ELSE <<cur>>) \o SplitFrom(s, i + 1, <<>>)
         ELSE SplitFrom(s, i + 1, Append(cur, s[i]))

Split(s) == SplitFrom(s, 1, <<>>)

\* str.endswith
EndsWith(s, suffix) ==
    /\ Len(s) >= Len(suffix)
    /\ SubSeq(s, Len(s) - Len(suffix) + 1, Len(s)) = suffix

\* key in d
Has(d, k) == \E i \in DOMAIN d : d[i].k = k

\* d[k]
Get(d, k) == d[CHOOSE i \in DOMAIN d : d[i].k = k].v

\* d.get(k, default)
GetOr(d, k, default) == IF Has(d, k) THEN Get(d, k) ELSE default

\* d[k] = v: in place for a key already there, at the end for a new key
Put(d, k, v) ==
    IF Has(d, k)
    THEN [d EXCEPT ![CHOOSE i \in DOMAIN d : d[i].k = k].v = v]
    ELSE Append(d, [k |-> k, v |-> v])

\* d.keys(), as a set
Keys(d) == {d[i].k : i \in DOMAIN d}

-----------------------------------------------------------------------------
(* The file system the loader reads *)

\* a directory holding one text file and one file of another type
DirD == <<"d">>
\* os.path.join(root, fname) of the text file in DirD
FileA == <<"d", "/", "a", ".", "t", "x", "t">>
\* a text file whose extension is in upper case
FileB == <<"b", ".", "T", "X", "T">>
\* an existing file that is not a text file
FileM == <<"m", ".", "m", "d">>
\* a path that does not exist
FileX == <<"x", ".", "t", "x", "t">>

\* os.walk(p): the (root, files) of each directory under p
Walk(p) ==
    IF p = DirD
    THEN << [root |-> DirD, files |-> << <<"a", ".", "t", "x", "t">>, <<"n", ".", "m", "d">> >>] >>
    ELSE <<>>

\* os.path.isdir
IsDir(p) == p = DirD

\* os.path.isfile
IsFile(p) == p \in {FileA, FileB, FileM, DirD \o <<"/">> \o <<"n", ".", "m", "d">>}

\* os.path.join
PathJoin(root, fname) == root \o <<"/">> \o fname

\* the text files whose content is read
TextFiles == {FileA, FileB}

\* "" (an empty file)
Text0 == <<>>
\* "Ab b\nb,"
Text1 == <<"A", "b", " ", "b", "\n", "b", ",">>
\* "b B\n"
Text2 == <<"b", " ", "B", "\n">>

\* the contents a text file can have
Contents(f) == IF f = FileA THEN {Text1, Text0} ELSE {Text2}

\* the paths a load request can name
PathInputs == {DirD, FileB, FileM, FileX}

\* the sequences over S of length at most n
SeqsUpTo(S, n) == UNION {[1..k -> S] : k \in 0..n}

\* the path lists of a load request
PathLists == SeqsUpTo(PathInputs, MaxPaths)

-----------------------------------------------------------------------------
(* TextProcessor *)

_is_text_file(filename) == EndsWith(Lower(filename), <<".", "t", "x", "t">>)

\* the text files of one directory of a walk, joined to its root
RECURSIVE WalkFiles(_, _, _)
WalkFiles(root, files, i) ==
    IF i > Len(files) THEN <<>>
    ELSE (IF _is_text_file(files[i]) THEN <<PathJoin(root, files[i])>> ELSE <<>>)
         \o WalkFiles(root, files, i + 1)

RECURSIVE WalkAll(_, _)
WalkAll(walk, j) ==
    IF j > Len(walk) THEN <<>>
    ELSE WalkFiles(walk[j].root, walk[j].files, 1) \o WalkAll(walk, j + 1)

\* the first loop of process_documents: the files to process, or the error
RECURSIVE Resolve(_, _, _)
Resolve(paths, i, to_process) ==
    IF i > Len(paths) THEN [err |-> "none", to_process |-> to_process]
    ELSE IF IsDir(paths[i])
         THEN Resolve(paths, i + 1, to_process \o WalkAll(Walk(paths[i]), 1))
         ELSE IF IsFile(paths[i]) /\ _is_text_file(paths[i])
              THEN Resolve(paths, i + 1, Append(to_process, paths[i]))
              ELSE [err |-> "FileNotFoundError", to_process |-> <<>>]

\* f.readlines(): the lines of a text, each with its terminator
RECURSIVE ReadLinesFrom(_, _, _)
ReadLinesFrom(s, i, cur) ==
    IF i > Len(s)
    THEN IF cur = <<>> THEN <<>> ELSE <<cur>>
    ELSE IF s[i] = "\n"
         THEN <<Append(cur, "\n")>> \o ReadLinesFrom(s, i + 1, <<>>)
         ELSE ReadLinesFrom(s, i + 1, Append(cur, s[i]))

_read_lines(text) == ReadLinesFrom(text, 1, <<>>)

\* l.strip('\n')
RECURSIVE StripNewlines(_)
StripNewlines(l) ==
    IF l = <<>> THEN l
    ELSE IF Head(l) = "\n" THEN StripNewlines(Tail(l))
    ELSE IF l[Len(l)] = "\n" THEN StripNewlines(SubSeq(l, 1, Len(l) - 1))
    ELSE l

_clean_and_tokenize(text) == Split(StripPunct(Lower(text)))

\* the reads of a load request that fail: io.failAt is the position in
\* to_process of the file whose read fails (0: none), io.stage the read
\* that fails, _read_file ("raw") or _read_lines ("lines")
IOOutcomes(n) == {[failAt |-> 0, stage |-> "raw"]}
                 \cup [failAt : 1..n, stage : {"raw", "lines"}]

\* the second loop of process_documents, from file i on
RECURSIVE ReadLoop(_, _, _, _, _)
ReadLoop(st, to_process, i, files, io) ==
    IF i > Len(to_process) THEN [st EXCEPT !.err = "none"]
    ELSE IF io.failAt = i /\ io.stage = "raw" THEN [st EXCEPT !.err = "IOError"]
    ELSE LET filepath == to_process[i]
             raw == files[filepath]
             st1 == [st EXCEPT !.docs_raw = Put(@, filepath, raw)]
         IN IF io.failAt = i /\ io.stage = "lines" THEN [st1 EXCEPT !.err = "IOError"]
            ELSE LET lignes == _read_lines(raw)
                     st2 == [st1 EXCEPT
                               !.docs_lines = Put(@, filepath,
                                   [k \in DOMAIN lignes |-> StripNewlines(lignes[k])]),
                               !.docs_tokens = Put(@, filepath, _clean_and_tokenize(raw))]
                 IN ReadLoop(st2, to_process, i + 1, files, io)

\* process_documents reading each file as soon as its path is resolved: the
\* files before a bad path are stored before the error is raised
process_documents_eager(st, paths, files, io) ==
    LET bad == {i \in DOMAIN paths : Resolve(<<paths[i]>>, 1, <<>>).err # "none"}
    IN IF bad = {} THEN ReadLoop(st, Resolve(paths, 1, <<>>).to_process, 1, files, io)
       ELSE LET first == CHOOSE i \in bad : \A j \in bad : i <= j
                before == Resolve(SubSeq(paths, 1, first - 1), 1, <<>>).to_process
            IN [ReadLoop(st, before, 1, files, io) EXCEPT !.err = "FileNotFoundError"]

\* process_documents emptying the three stores before it reads
process_documents_reset(st, paths, files, io) ==
    LET r == Resolve(paths, 1, <<>>)
    IN IF r.err # "none" THEN [st EXCEPT !.err = r.err]
       ELSE ReadLoop([docs_raw |-> <<>>, docs_lines |-> <<>>, docs_tokens |-> <<>>,
                      err |-> "none"],
                     r.to_process, 1, files, io)

\* process_documents(paths) on the stores st, reading the files `files`
process_documents(st, paths, files, io) ==
    LET r == Resolve(paths, 1, <<>>)
    IN IF r.err # "none" THEN [st EXCEPT !.err = r.err]
       ELSE ReadLoop(st, r.to_process, 1, files, io)

-----------------------------------------------------------------------------
(* SimpleIndexer *)

\* the inner loop of build_index: the words of one line
RECURSIVE IndexTokens(_, _, _, _, _)
IndexTokens(idx, filepath, num, tokens, t) ==
    IF t > Len(tokens) THEN idx
    ELSE LET mot == tokens[t]
             idx1 == IF Has(idx, mot) THEN idx ELSE Put(idx, mot, <<>>)
             idx2 == IF Has(Get(idx1, mot), filepath) THEN idx1
                     ELSE Put(idx1, mot, Put(Get(idx1, mot), filepath, <<>>))
             idx3 == Put(idx2, mot,
                         Put(Get(idx2, mot), filepath,
                             Append(Get(Get(idx2, mot), filepath), num)))
         IN IndexTokens(idx3, filepath, num, tokens, t + 1)

\* the loop of build_index over the lines of one document, numbered from 1
RECURSIVE IndexLines(_, _, _, _)
IndexLines(idx, filepath, lines, num) ==
    IF num > Len(lines) THEN idx
    ELSE IndexLines(
             IndexTokens(idx, filepath, num, Split(StripPunct(Lower(lines[num]))), 1),
             filepath, lines, num + 1)

\* the loop of build_index over the documents
RECURSIVE IndexDocs(_, _, _)
IndexDocs(idx, lines_of, j) ==
    IF j > Len(lines_of) THEN idx
    ELSE IndexDocs(IndexLines(idx, lines_of[j].k, lines_of[j].v, 1), lines_of, j + 1)

\* the dict build_index fills
BuiltIndex(lines_of) == IndexDocs(<<>>, lines_of, 1)

-----------------------------------------------------------------------------
(* FrequencyAnalyzer *)

\* Counter(tokens)
RECURSIVE CounterFrom(_, _, _)
CounterFrom(counter, tokens, t) ==
    IF t > Len(tokens) THEN counter
    ELSE CounterFrom(Put(counter, tokens[t], GetOr(counter, tokens[t], 0) + 1),
                     tokens, t + 1)

Counter(tokens) == CounterFrom(<<>>, tokens, 1)

\* the dict compute_frequency_per_document fills
RECURSIVE FreqDocs(_, _, _)
FreqDocs(freq, tokens_of, j) ==
    IF j > Len(tokens_of) THEN freq
    ELSE FreqDocs(Put(freq, tokens_of[j].k, Counter(tokens_of[j].v)), tokens_of, j + 1)

BuiltFreq(tokens_of) == FreqDocs(<<>>, tokens_of, 1)

\* Counter.update(other): add the counts of other
RECURSIVE CounterUpdate(_, _, _)
CounterUpdate(counter, other, t) ==
    IF t > Len(other) THEN counter
    ELSE CounterUpdate(Put(counter, other[t].k, GetOr(counter, other[t].k, 0) + other[t].v),
                       other, t + 1)

\* the loop of compute_corpus_frequency over freq_per_doc.values()
RECURSIVE CorpusFrom(_, _, _)
CorpusFrom(corpus, freq, j) ==
    IF j > Len(freq) THEN corpus
    ELSE CorpusFrom(CounterUpdate(corpus, freq[j].v, 1), freq, j + 1)

BuiltCorpus(freq) == CorpusFrom(<<>>, freq, 1)

-----------------------------------------------------------------------------
(* DocumentRetriever *)

\* the insertion of a sort without reverse=True
RECURSIVE InsertAsc(_, _)
InsertAsc(sorted, item) ==
    IF sorted = <<>> THEN <<item>>
    ELSE IF Head(sorted)[2] <= item[2]
         THEN <<Head(sorted)>> \o InsertAsc(Tail(sorted), item)
         ELSE <<item>> \o sorted

\* sorted(items, key=score, reverse=True): stable, so that items of equal
\* score keep their order
RECURSIVE InsertDesc(_, _)
InsertDesc(sorted, item) ==
    IF sorted = <<>> THEN <<item>>
    ELSE IF Head(sorted)[2] >= item[2]
         THEN <<Head(sorted)>> \o InsertDesc(Tail(sorted), item)
         ELSE <<item>> \o sorted

RECURSIVE SortDesc(_, _, _)
SortDesc(sorted, items, i) ==
    IF i > Len(items) THEN sorted
    ELSE SortDesc(InsertDesc(sorted, items[i]), items, i + 1)

\* dict.items() as (key, value) pairs
Items(d) == [i \in DOMAIN d |-> <<d[i].k, d[i].v>>]

\* the inner loop of retrieve assigning the count (=) instead of adding it (+=)
RECURSIVE ScoreDocsAssign(_, _, _, _, _)
ScoreDocsAssign(scores, entry, freq, mot, j) ==
    IF j > Len(entry) THEN scores
    ELSE ScoreDocsAssign(
             Put(scores, entry[j].k, GetOr(GetOr(freq, entry[j].k, <<>>), mot, 0)),
             entry, freq, mot, j + 1)

\* the inner loop of retrieve: the documents listed under one keyword
RECURSIVE ScoreDocs(_, _, _, _, _)
ScoreDocs(scores, entry, freq, mot, j) ==
    IF j > Len(entry) THEN scores
    ELSE LET filepath == entry[j].k
             f == GetOr(GetOr(freq, filepath, <<>>), mot, 0)
         IN ScoreDocs(Put(scores, filepath, GetOr(scores, filepath, 0) + f),
                      entry, freq, mot, j + 1)

\* the loop of retrieve without kw.lower()
RECURSIVE ScoreKeywordsAsTyped(_, _, _, _, _)
ScoreKeywordsAsTyped(scores, idx, freq, keywords, i) ==
    IF i > Len(keywords) THEN scores
    ELSE ScoreKeywordsAsTyped(
             IF Has(idx, keywords[i])
             THEN ScoreDocs(scores, Get(idx, keywords[i]), freq, keywords[i], 1)
             ELSE scores,
             idx, freq, keywords, i + 1)

\* the loop of retrieve over the keywords
RECURSIVE ScoreKeywords(_, _, _, _, _)
ScoreKeywords(scores, idx, freq, keywords, i) ==
    IF i > Len(keywords) THEN scores
    ELSE LET mot == Lower(keywords[i])
         IN ScoreKeywords(
                IF Has(idx, mot) THEN ScoreDocs(scores, Get(idx, mot), freq, mot, 1)
                ELSE scores,
                idx, freq, keywords, i + 1)

\* retrieve(keywords) of a retriever holding the dicts idx and freq
retrieve(idx, freq, keywords) ==
    IF keywords = <<>> THEN <<>>
    ELSE SortDesc(<<>>, Items(ScoreKeywords(<<>>, idx, freq, keywords, 1)), 1)

\* set(self.index.get(mot, {}).keys()) for one keyword
DocsFor(idx, kw) == Keys(GetOr(idx, Lower(kw), <<>>))

\* the union of the keywords' document sets instead of their intersection
IntersectionAsUnion(idx, keywords) ==
    UNION {DocsFor(idx, keywords[i]) : i \in DOMAIN keywords}

\* set.intersection(*sets_of_docs), for a keyword list that is not empty
Intersection(idx, keywords) ==
    {d \in DocsFor(idx, keywords[1]) : \A i \in DOMAIN keywords : d \in DocsFor(idx, keywords[i])}

\* the score loop of boolean_and_retrieve for one document
RECURSIVE AndScore(_, _, _, _)
AndScore(freq, filepath, keywords, i) ==
    IF i > Len(keywords) THEN 0
    ELSE GetOr(GetOr(freq, filepath, <<>>), Lower(keywords[i]), 0)
         + AndScore(freq, filepath, keywords, i + 1)

\* the orders in which a set can be iterated
Orders(S) == {o \in [1..Cardinality(S) -> S] : \A i, j \in DOMAIN o : o[i] = o[j] => i = j}

\* boolean_and_retrieve(keywords), its set of documents iterated in `order`
boolean_and_retrieve(idx, freq, keywords, order) ==
    IF keywords = <<>> THEN <<>>
    ELSE SortDesc(<<>>,
                  [i \in DOMAIN order |-> <<order[i], AndScore(freq, order[i], keywords, 1)>>],
                  1)

\* the results boolean_and_retrieve can return, over the iteration orders
AndResults(idx, freq, keywords) ==
    IF keywords = <<>> THEN {<<>>}
    ELSE {boolean_and_retrieve(idx, freq, keywords, o) : o \in Orders(Intersection(idx, keywords))}

-----------------------------------------------------------------------------
(* Objects and references *)

Refs == 1..NRefs

\* an attribute that was never assigned (SimpleIndexer and FrequencyAnalyzer
\* define _init_, which Python does not call on construction)
NoRef == 0

\* the lowest reference that nobody in `held` holds
NewRef(held) == CHOOSE r \in Refs : r \notin held /\ \A q \in Refs : q < r => q \in held

\* the heap cells of one kind without the cells nobody in `live` names
Collect(h, live) == [q \in Refs |-> IF q \in live THEN h[q] ELSE <<>>]

\* the heap cells of one kind when only `r` is still named: the dict moves
\* to cell 1 (addresses are not observable, and equal object graphs are
\* then equal states)
Compact(h, r) == [q \in Refs |-> IF q = 1 THEN h[r] ELSE <<>>]

\* the heap cells of one kind once `r` names the new dict `d`
Cells(h, held, r, d) == [Collect(h, held \cup {r}) EXCEPT ![r] = d]

\* the references the current retriever holds
RetrieverIndex == IF retriever = <<>> THEN {} ELSE {retriever[1].index}
RetrieverFreq == IF retriever = <<>> THEN {} ELSE {retriever[1].freq_per_doc}

\* build_index emptying the dict it has (self.index.clear()) instead of
\* binding a new one: a retriever that holds the dict sees it refilled
build_index_in_place(h, self_index, held, lines_of) ==
    LET r == IF self_index = NoRef THEN NewRef(held) ELSE self_index
    IN [ref |-> r, cells |-> Cells(h, held, r, BuiltIndex(lines_of))]

\* build_index: self.index = {} binds the attribute to a new dict, which
\* the loops fill; a dict a retriever holds is another object
build_index(h, self_index, held, lines_of) ==
    LET r == NewRef(held)
    IN [ref |-> r, cells |-> Cells(h, held, r, BuiltIndex(lines_of))]

\* compute_frequency_per_document: self.freq_per_doc = {} binds the
\* attribute to a new dict, which the loop fills
compute_frequency_per_document(h, self_freq, held, tokens_of) ==
    LET r == NewRef(held)
    IN [ref |-> r, cells |-> Cells(h, held, r, BuiltFreq(tokens_of))]

\* compute_corpus_frequency without self.corpus_freq = Counter(): the counts
\* are added to those of the last call
compute_corpus_frequency_no_reset(h, self_freq) ==
    IF self_freq = NoRef
    THEN [corpus_freq |-> corpus_freq, err |-> "AttributeError"]
    ELSE [corpus_freq |-> <<CorpusFrom(IF corpus_freq = <<>> THEN <<>> ELSE corpus_freq[1],
                                       h[self_freq], 1)>>,
          err |-> "none"]

\* compute_corpus_frequency: self.corpus_freq = Counter() is assigned
\* before self.freq_per_doc is read
compute_corpus_frequency(h, self_freq) ==
    IF self_freq = NoRef
    THEN [corpus_freq |-> << <<>> >>, err |-> "AttributeError"]
    ELSE [corpus_freq |-> <<BuiltCorpus(h[self_freq])>>, err |-> "none"]

\* search_word: self.index.get(word.lower(), {})
search_word(h, self_index, word) ==
    IF self_index = NoRef
    THEN [res |-> <<>>, err |-> "AttributeError"]
    ELSE [res |-> GetOr(h[self_index], Lower(word), <<>>), err |-> "none"]

\* DocumentRetriever(index=indexer.get_index(), freq_per_doc=analyzer.freq_per_doc):
\* the retriever holds the two dicts themselves, not copies; the dicts the
\* retriever it replaces held are unreachable from then on
DocumentRetriever(h, self_index, self_freq) ==
    IF self_index = NoRef \/ self_freq = NoRef
    THEN [err |-> "AttributeError"]
    ELSE [err |-> "none",
          retriever |-> <<[index |-> 1, freq_per_doc |-> 1]>>,
          index |-> 1,
          freq_per_doc |-> 1,
          heap |-> [index |-> Compact(h.index, self_index),
                    freq |-> Compact(h.freq, self_freq)]]

\* the words of the queries
Words == {<<"b">>, <<"A", "b">>, <<"z">>}

\* the keyword lists of the queries
KwLists == SeqsUpTo(Words, MaxKw)

\* the loader's three stores, with the error of the last request
Stores == [docs_raw |-> docs_raw, docs_lines |-> docs_lines,
           docs_tokens |-> docs_tokens, err |-> "none"]

Call(op, arg, res, err) == [op |-> op, arg |-> arg, res |-> res, err |-> err]

\* no call is under way: the result of the last one has been dropped
Idle == Call("idle", <<>>, <<>>, "none")

-----------------------------------------------------------------------------
(* The state after construction *)

Init ==
    /\ fs = [f \in TextFiles |-> IF f = FileA THEN Text1 ELSE Text2]
    /\ docs_raw = <<>>
    /\ docs_lines = <<>>
    /\ docs_tokens = <<>>
    /\ index = NoRef
    /\ freq_per_doc = NoRef
    /\ corpus_freq = <<>>
    /\ retriever = <<>>
    /\ loaded = FALSE
    /\ heap = [index |-> [q \in Refs |-> <<>>], freq |-> [q \in Refs |-> <<>>]]
    /\ last = Idle

-----------------------------------------------------------------------------
(* The session: CLIManager.run *)

\* another program writes a text file
WriteFile ==
    \E f \in TextFiles : \E c \in Contents(f) :
        /\ last = Idle
        /\ fs[f] # c
        /\ fs' = [fs EXCEPT ![f] = c]
        /\ UNCHANGED <<docs_raw, docs_lines, docs_tokens, index, freq_per_doc,
                       corpus_freq, retriever, loaded, heap, last>>

\* option 1
_handle_load ==
    /\ last = Idle
    /\ \E chemins \in PathLists :
         \E io \in IOOutcomes(Len(Resolve(chemins, 1, <<>>).to_process)) :
        LET st == process_documents(Stores, chemins, fs, io)
            bi == build_index(heap.index, index, RetrieverIndex, st.docs_lines)
            cf == compute_frequency_per_document(heap.freq, freq_per_doc, RetrieverFreq,
                                                 st.docs_tokens)
            cc == compute_corpus_frequency(cf.cells, cf.ref)
            dr == DocumentRetriever([index |-> bi.cells, freq |-> cf.cells], bi.ref, cf.ref)
        IN /\ docs_raw' = st.docs_raw
           /\ docs_lines' = st.docs_lines
           /\ docs_tokens' = st.docs_tokens
           /\ last' = Call("load", chemins, <<>>, st.err)
           /\ IF st.err = "none"
              THEN /\ index' = dr.index
                   /\ freq_per_doc' = dr.freq_per_doc
                   /\ corpus_freq' = cc.corpus_freq
                   /\ retriever' = dr.retriever
                   /\ heap' = dr.heap
                   /\ loaded' = TRUE
              ELSE UNCHANGED <<index, freq_per_doc, corpus_freq, retriever, heap, loaded>>
           /\ UNCHANGED fs

\* option 2: the frequencies are computed again, and a new retriever made
Option2 ==
    IF ~loaded
    THEN /\ last = Idle
         /\ last' = Call("analyze", <<>>, <<>>, "not loaded")
         /\ UNCHANGED <<fs, docs_raw, docs_lines, docs_tokens, index, freq_per_doc,
                        corpus_freq, retriever, loaded, heap>>
    ELSE LET cf == compute_frequency_per_document(heap.freq, freq_per_doc, RetrieverFreq,
                                                  docs_tokens)
             cc == compute_corpus_frequency(cf.cells, cf.ref)
             dr == DocumentRetriever([index |-> heap.index, freq |-> cf.cells], index, cf.ref)
         IN /\ last = Idle
            /\ index' = dr.index
            /\ freq_per_doc' = dr.freq_per_doc
            /\ corpus_freq' = cc.corpus_freq
            /\ retriever' = dr.retriever
            /\ heap' = dr.heap
            /\ last' = Call("analyze", <<>>, <<>>, "none")
            /\ UNCHANGED <<fs, docs_raw, docs_lines, docs_tokens, loaded>>

\* option 4
_handle_search_word ==
    /\ last = Idle
    /\ IF ~loaded
       THEN last' = Call("search", <<>>, <<>>, "not loaded")
       ELSE \E w \in Words :
                LET r == search_word(heap.index, index, Lower(w))
                IN last' = Call("search_word", w, r.res, r.err)
    /\ UNCHANGED <<fs, docs_raw, docs_lines, docs_tokens, index, freq_per_doc,
                   corpus_freq, retriever, loaded, heap>>

\* option 5: a keyword list that is not empty, in mode 1 (OR) or 2 (AND)
_handle_retrieve_documents ==
    /\ last = Idle
    /\ IF ~loaded
       THEN last' = Call("documents", <<>>, <<>>, "not loaded")
       ELSE \E keywords \in KwLists \ {<<>>} :
                \/ last' = Call("retrieve", keywords,
                                retrieve(heap.index[retriever[1].index],
                                         heap.freq[retriever[1].freq_per_doc], keywords),
                                "none")
                \/ \E res \in AndResults(heap.index[retriever[1].index],
                                         heap.freq[retriever[1].freq_per_doc], keywords) :
                       last' = Call("boolean_and_retrieve", keywords, res, "none")
    /\ UNCHANGED <<fs, docs_raw, docs_lines, docs_tokens, index, freq_per_doc,
                   corpus_freq, retriever, loaded, heap>>

\* the loop of run goes back to the menu: the result of the call is dropped
Return ==
    /\ last # Idle
    /\ last' = Idle
    /\ UNCHANGED <<fs, docs_raw, docs_lines, docs_tokens, index, freq_per_doc,
                   corpus_freq, retriever, loaded, heap>>

Next ==
    \/ Return
    \/ WriteFile
    \/ _handle_load
    \/ Option2
    \/ _handle_search_word
    \/ _handle_retrieve_documents

Spec == Init /\ [][Next]_vars

-----------------------------------------------------------------------------
(* The components called directly, in any order *)

\* the stores of a loader that has served one request without a failure
LoadedStores ==
    LET EmptyStores == [docs_raw |-> <<>>, docs_lines |-> <<>>, docs_tokens |-> <<>>,
                        err |-> "none"]
        all == {process_documents(EmptyStores, paths, fs, [failAt |-> 0, stage |-> "raw"]) :
                    paths \in PathLists}
    IN {st \in all : st.err = "none"}

\* SimpleIndexer.build_index(docs_lines), on the lines of a loader
ApiBuildIndex ==
    /\ last = Idle
    /\ \E st \in LoadedStores :
           LET bi == build_index(heap.index, index, RetrieverIndex, st.docs_lines)
           IN /\ index' = bi.ref
              /\ heap' = [heap EXCEPT !.index = bi.cells]
              /\ last' = Call("build_index", st.docs_lines, <<>>, "none")
    /\ UNCHANGED <<fs, docs_raw, docs_lines, docs_tokens, freq_per_doc, corpus_freq,
                   retriever, loaded>>

\* FrequencyAnalyzer.compute_frequency_per_document(docs_tokens), on the
\* tokens of a loader
ApiComputeFrequencyPerDocument ==
    /\ last = Idle
    /\ \E st \in LoadedStores :
           LET cf == compute_frequency_per_document(heap.freq, freq_per_doc, RetrieverFreq,
                                                    st.docs_tokens)
           IN /\ freq_per_doc' = cf.ref
              /\ heap' = [heap EXCEPT !.freq = cf.cells]
              /\ last' = Call("compute_frequency_per_document", st.docs_tokens, <<>>, "none")
    /\ UNCHANGED <<fs, docs_raw, docs_lines, docs_tokens, index, corpus_freq,
                   retriever, loaded>>

\* FrequencyAnalyzer.compute_corpus_frequency()
ApiComputeCorpusFrequency ==
    LET cc == compute_corpus_frequency(heap.freq, freq_per_doc)
    IN /\ last = Idle
       /\ corpus_freq' = cc.corpus_freq
       /\ last' = Call("compute_corpus_frequency", <<>>, <<>>, cc.err)
       /\ UNCHANGED <<fs, docs_raw, docs_lines, docs_tokens, index, freq_per_doc,
                      retriever, loaded, heap>>

\* DocumentRetriever(indexer.get_index(), analyzer.freq_per_doc)
ApiNewRetriever ==
    LET dr == DocumentRetriever(heap, index, freq_per_doc)
    IN /\ last = Idle
       /\ IF dr.err = "none"
          THEN /\ retriever' = dr.retriever
               /\ index' = dr.index
               /\ freq_per_doc' = dr.freq_per_doc
               /\ heap' = dr.heap
          ELSE UNCHANGED <<retriever, index, freq_per_doc, heap>>
       /\ last' = Call("DocumentRetriever", <<>>, <<>>, dr.err)
       /\ UNCHANGED <<fs, docs_raw, docs_lines, docs_tokens, corpus_freq, loaded>>

\* SimpleIndexer.search_word(w)
ApiSearchWord ==
    \E w \in Words :
        LET r == search_word(heap.index, index, w)
        IN /\ last = Idle
           /\ last' = Call("search_word", w, r.res, r.err)
           /\ UNCHANGED <<fs, docs_raw, docs_lines, docs_tokens, index, freq_per_doc,
                          corpus_freq, retriever, loaded, heap>>

\* DocumentRetriever.retrieve(keywords)
ApiRetrieve ==
    /\ last = Idle
    /\ retriever # <<>>
    /\ \E keywords \in KwLists :
           last' = Call("retrieve", keywords,
                        retrieve(heap.index[retriever[1].index],
                                 heap.freq[retriever[1].freq_per_doc], keywords),
                        "none")
    /\ UNCHANGED <<fs, docs_raw, docs_lines, docs_tokens, index, freq_per_doc,
                   corpus_freq, retriever, loaded, heap>>

\* DocumentRetriever.boolean_and_retrieve(keywords)
ApiBooleanAndRetrieve ==
    /\ last = Idle
    /\ retriever # <<>>
    /\ \E keywords \in KwLists :
       \E res \in AndResults(heap.index[retriever[1].index],
                             heap.freq[retriever[1].freq_per_doc], keywords) :
           last' = Call("boolean_and_retrieve", keywords, res, "none")
    /\ UNCHANGED <<fs, docs_raw, docs_lines, docs_tokens, index, freq_per_doc,
                   corpus_freq, retriever, loaded, heap>>

\* an indexer, an analyzer and the retrievers made from them
NextApi ==
    \/ Return
    \/ ApiBuildIndex
    \/ ApiComputeFrequencyPerDocument
    \/ ApiNewRetriever
    \/ ApiSearchWord
    \/ ApiRetrieve
    \/ ApiBooleanAndRetrieve

SpecApi == Init /\ [][NextApi]_vars

\* an analyzer alone, given the tokens of files that change
NextFreq ==
    \/ Return
    \/ WriteFile
    \/ ApiComputeFrequencyPerDocument
    \/ ApiComputeCorpusFrequency

SpecFreq == Init /\ [][NextFreq]_vars

-----------------------------------------------------------------------------
(* What the properties are stated with *)

\* the sum of a sequence of numbers
RECURSIVE SumSeq(_)
SumSeq(q) == IF q = <<>> THEN 0 ELSE Head(q) + SumSeq(Tail(q))

\* the documents the index idx lists under the word w
Listed(idx, w) ==
    {d \in UNION {Keys(idx[i].v) : i \in DOMAIN idx} :
        \E i \in DOMAIN idx : idx[i].k = w /\ \E j \in DOMAIN idx[i].v : idx[i].v[j].k = d}

\* the count the frequency table fq gives the document d for the word w
CountIn(fq, d, w) ==
    SumSeq([j \in DOMAIN fq |->
              IF fq[j].k = d
              THEN SumSeq([t \in DOMAIN fq[j].v |-> IF fq[j].v[t].k = w THEN fq[j].v[t].v ELSE 0])
              ELSE 0])

\* the words a frequency table counts
TokensOf(fq) == UNION {Keys(fq[j].v) : j \in DOMAIN fq}

\* the elements of a sequence
Range(q) == {q[i] : i \in DOMAIN q}

\* the files a path list resolves to
ResolvedFrom(paths) == Range(Resolve(paths, 1, <<>>).to_process)

\* a path that is neither a directory nor an existing .txt file
BadPath(p) ==
    ~ \/ p = DirD
      \/ p \in {FileA, FileB}

-----------------------------------------------------------------------------
(* The session *)

\* C1: once the frequency tables are computed, the corpus count of every
\* word is the sum of the documents' counts of it, and a word is in the
\* corpus table exactly when some document counts it.
CorpusIsSumOfDocuments ==
    (freq_per_doc # NoRef /\ corpus_freq # <<>>) =>
        LET corpus == corpus_freq[1]
            fq == heap.freq[freq_per_doc]
        IN \A T \in Keys(corpus) \cup TokensOf(fq) \cup {Lower(w) : w \in Words} :
               /\ SumSeq([t \in DOMAIN corpus |-> IF corpus[t].k = T THEN corpus[t].v ELSE 0])
                    = SumSeq([j \in DOMAIN fq |-> CountIn(fq, fq[j].k, T)])
               /\ T \in Keys(corpus) <=> T \in TokensOf(fq)

\* C1 happens: the frequencies of two documents that both count "b" have
\* been computed again by option 2.
CorpusOfTwoDocuments ==
    /\ last.op = "analyze" /\ last.err = "none"
    /\ Len(heap.freq[freq_per_doc]) = 2
    /\ GetOr(corpus_freq[1], <<"b">>, 0) = 4

\* C2: a load request naming a bad path, at any position, fails with
\* FileNotFoundError and leaves the loader's stores, the index, the
\* frequency tables and the retriever as they were.
NotFoundCommitsNothing ==
    [][last'.op = "load" =>
         /\ (\E i \in DOMAIN last'.arg : BadPath(last'.arg[i]))
              => last'.err = "FileNotFoundError"
         /\ last'.err = "FileNotFoundError"
              => UNCHANGED <<docs_raw, docs_lines, docs_tokens, index, freq_per_doc,
                             corpus_freq, retriever, heap, loaded>>]_vars

\* C2 happens: with documents already loaded, a request names a valid
\* directory and then a file that does not exist.
NotFoundAfterDirectory ==
    /\ last.op = "load" /\ last.err = "FileNotFoundError"
    /\ last.arg = <<DirD, FileX>>
    /\ Len(docs_lines) = 1 /\ docs_lines[1].k = FileB
    /\ loaded

\* C3 as stated: after a load that succeeds, the stores, the per-document
\* frequency table and the index hold the documents of that request only
\* (stated for the requests that name a path).
LoadReplacesDocuments ==
    (last.op = "load" /\ last.err = "none" /\ last.arg # <<>>) =>
        LET P == ResolvedFrom(last.arg)
        IN /\ Keys(docs_raw) = P
           /\ Keys(docs_lines) = P
           /\ Keys(docs_tokens) = P
           /\ Keys(heap.freq[freq_per_doc]) = P
           /\ \A w \in Keys(heap.index[index]) : Listed(heap.index[index], w) \subseteq P

\* C3 amended: after a load that succeeds, each store holds the documents it
\* held before the request and those the request resolves to, the latter
\* with the content just read and the others as they were; the
\* per-document frequency table holds the documents of the token store, and
\* the index lists the documents of the line store that have a word.
LoadAddsDocuments ==
    [][(last'.op = "load" /\ last'.err = "none") =>
         LET P == ResolvedFrom(last'.arg)
         IN /\ Keys(docs_raw') = Keys(docs_raw) \cup P
            /\ Keys(docs_lines') = Keys(docs_lines) \cup P
            /\ Keys(docs_tokens') = Keys(docs_tokens) \cup P
            /\ \A d \in P : Get(docs_raw', d) = fs[d]
            /\ \A d \in Keys(docs_raw) \ P : Get(docs_raw', d) = Get(docs_raw, d)
            /\ \A d \in Keys(docs_lines) \ P : Get(docs_lines', d) = Get(docs_lines, d)
            /\ \A d \in Keys(docs_tokens) \ P : Get(docs_tokens', d) = Get(docs_tokens, d)
            /\ Keys(heap'.freq[freq_per_doc']) = Keys(docs_tokens')
            /\ UNION {Listed(heap'.index[index'], w) : w \in Keys(heap'.index[index'])}
                 = {d \in Keys(docs_lines') :
                        \E n \in DOMAIN Get(docs_lines', d) :
                            \E c \in Range(Get(docs_lines', d)[n]) : IsWordChar(c)}]_vars

\* C3 happens: a load has succeeded and the stores hold a document that the
\* request did not name, which the index lists.
EarlierDocumentKept ==
    /\ last.op = "load" /\ last.err = "none"
    /\ \E d \in Keys(docs_lines) \ ResolvedFrom(last.arg) :
           d \in Listed(heap.index[index], <<"b">>)

-----------------------------------------------------------------------------
(* The components *)

\* C4: search_word never fails: on any indexer, one on which build_index
\* was never called included, it returns what the index holds under the
\* lowercased word, or an empty mapping.
SearchWordNeverFails ==
    last.op = "search_word" =>
        /\ last.err = "none"
        /\ last.res = IF index = NoRef THEN <<>>
                      ELSE GetOr(heap.index[index], Lower(last.arg), <<>>)

\* C5: compute_corpus_frequency on an analyzer on which
\* compute_frequency_per_document was never called completes without error
\* and leaves the corpus table empty.
CorpusBeforePerDocumentIsEmpty ==
    (last.op = "compute_corpus_frequency" /\ freq_per_doc = NoRef) =>
        /\ last.err = "none"
        /\ corpus_freq = << <<>> >>

\* the documents of a result list
ResultDocs(res) == {res[i][1] : i \in DOMAIN res}

\* the dicts the current retriever holds
RetrieverIdx == heap.index[retriever[1].index]
RetrieverFq == heap.freq[retriever[1].freq_per_doc]

\* C6: retrieve returns each document that the index lists under a
\* lowercased keyword, once, with the sum, over the positions of the keyword
\* list whose keyword lists the document, of the document's count of that
\* keyword; an empty keyword list gives an empty list.
OrModeScores ==
    (last.op = "retrieve" /\ last.err = "none") =>
        LET K == last.arg
            res == last.res
        IN /\ ResultDocs(res) = UNION {Listed(RetrieverIdx, Lower(K[p])) : p \in DOMAIN K}
           /\ \A i, j \in DOMAIN res : res[i][1] = res[j][1] => i = j
           /\ \A i \in DOMAIN res :
                  res[i][2] = SumSeq([p \in DOMAIN K |->
                                        IF res[i][1] \in Listed(RetrieverIdx, Lower(K[p]))
                                        THEN CountIn(RetrieverFq, res[i][1], Lower(K[p]))
                                        ELSE 0])
           /\ K = <<>> => res = <<>>

\* C6 happens: a keyword in upper case, then a keyword the index does not
\* hold, give the one document listed under the first.
OrModeMixedKeywords ==
    /\ last.op = "retrieve" /\ last.err = "none"
    /\ last.arg = << <<"A", "b">>, <<"z">> >>
    /\ last.res = << <<FileA, 1>> >>

\* C7: boolean_and_retrieve returns, for a keyword list that is not empty,
\* the documents that the index lists under every lowercased keyword, each
\* with the sum of its counts over the keywords of the list; a keyword the
\* index does not hold, or an empty list, gives an empty list.
AndModeScores ==
    (last.op = "boolean_and_retrieve" /\ last.err = "none") =>
        LET K == last.arg
            res == last.res
        IN /\ K # <<>> =>
                ResultDocs(res) =
                    {d \in UNION {Listed(RetrieverIdx, w) : w \in Keys(RetrieverIdx)} :
                        \A p \in DOMAIN K : d \in Listed(RetrieverIdx, Lower(K[p]))}
           /\ \A i \in DOMAIN res :
                  res[i][2] = SumSeq([p \in DOMAIN K |->
                                        CountIn(RetrieverFq, res[i][1], Lower(K[p]))])
           /\ (\E p \in DOMAIN K : Lower(K[p]) \notin Keys(RetrieverIdx)) => res = <<>>
           /\ K = <<>> => res = <<>>

\* C7 happens: of two indexed documents, one holds both keywords.
AndModeOneOfTwo ==
    /\ last.op = "boolean_and_retrieve" /\ last.err = "none"
    /\ last.arg = << <<"A", "b">>, <<"b">> >>
    /\ last.res = << <<FileA, 3>> >>
    /\ Cardinality(Listed(RetrieverIdx, <<"b">>)) = 2

\* C8: the list either mode returns is in descending order of score, and
\* no document is in it twice.
ResultsSortedAndDistinct ==
    (last.op \in {"retrieve", "boolean_and_retrieve"} /\ last.err = "none") =>
        \A i, j \in DOMAIN last.res :
            i < j => /\ last.res[i][2] >= last.res[j][2]
                     /\ last.res[i][1] # last.res[j][1]

\* C8 happens: a list of two documents of different scores has been returned.
TwoScoresReturned ==
    /\ last.op \in {"retrieve", "boolean_and_retrieve"} /\ last.err = "none"
    /\ Len(last.res) = 2
    /\ last.res[1][2] > last.res[2][2]

\* C9: for every keyword list, the documents AND mode returns are among
\* those OR mode returns, and a document both return has an AND score that
\* is at most its OR score.
AndWithinOr ==
    (retriever # <<>> /\ last.op \in {"retrieve", "boolean_and_retrieve"}
                      /\ last.err = "none") =>
        LET K == last.arg
            ors == IF last.op = "retrieve" THEN {last.res}
                   ELSE {retrieve(RetrieverIdx, RetrieverFq, K)}
            ands == IF last.op = "boolean_and_retrieve" THEN {last.res}
                    ELSE AndResults(RetrieverIdx, RetrieverFq, K)
        IN \A ro \in ors, ra \in ands :
               /\ ResultDocs(ra) \subseteq ResultDocs(ro)
               /\ ResultDocs(ra) \subseteq
                      UNION {Listed(RetrieverIdx, Lower(K[p])) : p \in DOMAIN K}
               /\ \A i \in DOMAIN ra, j \in DOMAIN ro :
                      ra[i][1] = ro[j][1] => ra[i][2] <= ro[j][2]

\* C9 happens: AND mode has returned one document where OR mode returns two.
AndStrictlyWithinOr ==
    /\ last.op = "boolean_and_retrieve" /\ last.err = "none"
    /\ Len(last.res) = 1
    /\ Len(retrieve(RetrieverIdx, RetrieverFq, last.arg)) = 2

\* C10: build_index and compute_frequency_per_document leave a retriever
\* made before them with the results it gave, for every keyword list and in
\* both modes; a retriever made after them holds the dicts they built.
RetrieverKeepsSnapshot ==
    [][/\ (retriever # <<>> /\ last'.op \in {"build_index", "compute_frequency_per_document"})
            => /\ retriever' = retriever
               /\ \A K \in KwLists :
                      /\ retrieve(heap'.index[retriever'[1].index],
                                  heap'.freq[retriever'[1].freq_per_doc], K)
                           = retrieve(RetrieverIdx, RetrieverFq, K)
                      /\ AndResults(heap'.index[retriever'[1].index],
                                    heap'.freq[retriever'[1].freq_per_doc], K)
                           = AndResults(RetrieverIdx, RetrieverFq, K)
       /\ (last'.op = "DocumentRetriever" /\ last'.err = "none")
            => /\ heap'.index[retriever'[1].index] = heap.index[index]
               /\ heap'.freq[retriever'[1].freq_per_doc] = heap.freq[freq_per_doc]
               /\ heap'.index[index'] = heap.index[index]
               /\ heap'.freq[freq_per_doc'] = heap.freq[freq_per_doc]]_vars

\* C10 happens: the index and the frequencies have been built again, and the
\* retriever made before still returns a document that they no longer hold.
StaleRetrieverDiffers ==
    /\ retriever # <<>>
    /\ last.op \in {"build_index", "compute_frequency_per_document"}
    /\ index # retriever[1].index
    /\ freq_per_doc # retriever[1].freq_per_doc
    /\ Len(retrieve(RetrieverIdx, RetrieverFq, << <<"b">> >>)) = 2
    /\ retrieve(heap.index[index], heap.freq[freq_per_doc], << <<"b">> >>) = << <<FileB, 2>> >>

-----------------------------------------------------------------------------
(* The index against the loader's lines *)

\* how many times the number n stands in the list nums
TimesIn(nums, n) == SumSeq([i \in DOMAIN nums |-> IF nums[i] = n THEN 1 ELSE 0])

\* how many times the word w stands on the line l
OccurrencesOn(l, w) ==
    LET tokens == Split(StripPunct(Lower(l)))
    IN SumSeq([t \in DOMAIN tokens |-> IF tokens[t] = w THEN 1 ELSE 0])

\* the list nums is what the index should hold for the word w and the lines
\* of one document: ascending, every number within the lines, and every
\* line's number once per occurrence of w on that line
LineListMatches(nums, w, lines) ==
    /\ \A i, j \in DOMAIN nums : i < j => nums[i] <= nums[j]
    /\ \A i \in DOMAIN nums : 1 <= nums[i] /\ nums[i] <= Len(lines)
    /\ \A n \in DOMAIN lines : TimesIn(nums, n) = OccurrencesOn(lines[n], w)

\* C11: in every state of the session, for every word and document in the
\* inverted index, the stored list of line numbers is ascending, holds a
\* line number once per occurrence of the word on that line, and every
\* stored number lies between 1 and the number of lines the loader now
\* holds for that document.
IndexMatchesLoaderLines ==
    index # NoRef =>
        LET idx == heap.index[index]
        IN \A i \in DOMAIN idx : \A j \in DOMAIN idx[i].v :
               /\ Has(docs_lines, idx[i].v[j].k)
               /\ LineListMatches(idx[i].v[j].v, idx[i].k, Get(docs_lines, idx[i].v[j].k))

-----------------------------------------------------------------------------
(* The retriever's index against its frequency table *)

\* the number of line entries the index idx holds for the word w in the
\* document d
EntriesIn(idx, d, w) ==
    SumSeq([i \in DOMAIN idx |->
              IF idx[i].k = w
              THEN SumSeq([j \in DOMAIN idx[i].v |->
                             IF idx[i].v[j].k = d THEN Len(idx[i].v[j].v) ELSE 0])
              ELSE 0])

\* C12: in every state of the session, the index and the frequency table of
\* the current retriever agree: for every word w and document d, d is listed
\* under w in the index exactly when the frequency table gives d a count
\* above 0 for w, and the index holds as many line entries for w in d as
\* that count.
RetrieverTablesAgree ==
    retriever # <<>> =>
        \A w \in Keys(RetrieverIdx) \cup TokensOf(RetrieverFq) :
            \A d \in Keys(RetrieverFq) \cup Listed(RetrieverIdx, w) :
                /\ d \in Listed(RetrieverIdx, w) <=> CountIn(RetrieverFq, d, w) > 0
                /\ EntriesIn(RetrieverIdx, d, w) = CountIn(RetrieverFq, d, w)

=============================================================================
